---- MODULE Spec2Model ----
(***************************************************************************)
(* Model of assets/service-worker.js: the install, activate, fetch and     *)
(* message listeners, the cacheFirst and networkFirst strategies and       *)
(* limitCacheSize, running as interleaved asynchronous tasks over the      *)
(* browser's Cache Storage.                                                *)
(*                                                                         *)
(* Strings the code inspects (URL paths, cache names) are sequences of     *)
(* string pieces whose concatenation is the string: includes(), startsWith *)
(* and the $-anchored extension patterns are computed on the pieces.       *)
(*                                                                         *)
(* Cache Storage follows the Cache API: caches.open(name) creates the      *)
(* cache when the name is unbound, caches.delete(name) unbinds the name    *)
(* while Cache objects already handed out stay usable, cache.put replaces  *)
(* the entry of the same URL and appends the new one, cache.keys() lists   *)
(* in insertion order.  Every await is a step boundary.                    *)
(***************************************************************************)
EXTENDS Integers, Sequences, FiniteSets, TLC

\* Number of fetch events dispatched to the worker in one run.
MaxRequests == 2

\* Number of those fetch events in a run that also has install and activate
\* events, or a clearCache command.
MaxInterleaved == 1

Tasks == 1..MaxRequests

(***************************************************************************)
(* Constants of the script (lines 5-8).                                    *)
(***************************************************************************)
CACHE_VERSION == <<"shopify-theme-", "v1">>

STATIC_CACHE == CACHE_VERSION \o <<"-static">>

DYNAMIC_CACHE == CACHE_VERSION \o <<"-dynamic">>

MAX_DYNAMIC_CACHE_SIZE == 50

\* Cache names left in Cache Storage by an earlier version of the worker, and
\* one owned by another script of the same origin.
OLD_STATIC_CACHE == <<"shopify-theme-", "v0", "-static">>

OLD_DYNAMIC_CACHE == <<"shopify-theme-", "v0", "-dynamic">>

FOREIGN_CACHE == <<"wishlist-", "shopify-theme-", "offline">>

CacheNames ==
  {STATIC_CACHE, DYNAMIC_CACHE, OLD_STATIC_CACHE, OLD_DYNAMIC_CACHE, FOREIGN_CACHE}

(***************************************************************************)
(* String operations on piece sequences.                                   *)
(***************************************************************************)
StartsWith(s, p) == Len(s) >= Len(p) /\ SubSeq(s, 1, Len(p)) = p

Includes(s, sub) ==
  \E i \in 1..(Len(s) + 1) :
    i + Len(sub) - 1 <= Len(s) /\ SubSeq(s, i, i + Len(sub) - 1) = sub

\* /\.(ext1|ext2|...)$/ : the path ends with one of the extensions.
EndsWithOneOf(s, exts) == Len(s) > 0 /\ s[Len(s)] \in exts

(***************************************************************************)
(* Requests the pages send.                                                *)
(***************************************************************************)
CssPath == <<"/assets", "/app", ".css">>

PngPath == <<"/files", "/logo", ".png">>

WidgetPath == <<"/products", "/widget">>

CartPath == <<"/cart">>

\* A page stored by an earlier run: the oldest entry of the dynamic cache.
OldestPagePath == <<"/pages", "/page-", "1">>

AdminCssPath == <<"/admin", "/themes", "/editor", ".css">>

CheckoutPath == <<"/checkout", "/thank-you">>

CartAddPath == <<"/cart", "/add", ".js">>

CartUpdatePath == <<"/cart", "/update">>

Paths ==
  {CssPath, PngPath, WidgetPath, CartPath, OldestPagePath,
   AdminCssPath, CheckoutPath, CartAddPath, CartUpdatePath}

\* Every path is requested with GET; two of them are also posted to.
Requests ==
  [method : {"GET"}, path : Paths] \cup [method : {"POST"}, path : {CssPath, WidgetPath}]

NoRequest == [method |-> "", path |-> << >>]

(***************************************************************************)
(* fetch listener, lines 65-93: the classification of a request.           *)
(***************************************************************************)
IsExcludedPathNoCartUpdate(path) ==
  \/ Includes(path, <<"/admin">>)
  \/ Includes(path, <<"/checkout">>)
  \/ Includes(path, <<"/cart", "/add">>)

IsExcludedPath(path) ==
  \/ Includes(path, <<"/admin">>)
  \/ Includes(path, <<"/checkout">>)
  \/ Includes(path, <<"/cart", "/add">>)
  \/ Includes(path, <<"/cart", "/update">>)

isStaticAsset(path) ==
  EndsWithOneOf(path, {".css", ".js", ".woff", ".woff2", ".ttf", ".eot"})

isImage(path) ==
  EndsWithOneOf(path, {".jpg", ".jpeg", ".png", ".gif", ".webp", ".svg", ".avif"})

\* The dispatch with images handed to networkFirst.
DispatchImagesAsPages(request) ==
  IF request.method # "GET" THEN "none"
  ELSE IF IsExcludedPath(request.path) THEN "none"
  ELSE IF isStaticAsset(request.path) THEN "cacheFirst"
  ELSE "networkFirst"

\* The strategy the listener hands the request to, "none" when it returns
\* without calling respondWith.
Dispatch(request) ==
  IF request.method # "GET" THEN "none"
  ELSE IF IsExcludedPath(request.path) THEN "none"
  ELSE IF isStaticAsset(request.path) THEN "cacheFirst"
  ELSE IF isImage(request.path) THEN "cacheFirst"
  ELSE "networkFirst"

(***************************************************************************)
(* JavaScript values a handler returns: a Response, undefined, or a        *)
(* pending Promise (of cache.match).                                       *)
(***************************************************************************)
Response(status, statusText, contentType, body) ==
  [tag |-> "response", status |-> status, statusText |-> statusText,
   contentType |-> contentType, body |-> body]

Undefined ==
  [tag |-> "undefined", status |-> 0, statusText |-> "", contentType |-> "", body |-> ""]

MatchPromise ==
  [tag |-> "promise", status |-> 0, statusText |-> "", contentType |-> "", body |-> ""]

\* The outcome of a strategy whose promise rejected.
Rejected ==
  [tag |-> "rejected", status |-> 0, statusText |-> "", contentType |-> "", body |-> ""]

\* ToBoolean: undefined is falsy, every object (a Response, a Promise) truthy.
Truthy(v) == v.tag # "undefined"

\* a || b
JsOr(a, b) == IF Truthy(a) THEN a ELSE b

\* The Response the origin sends to the fetch of task t.
NetworkResponse(status, t) ==
  Response(status, IF status = 200 THEN "OK" ELSE "Not Found", "application/octet-stream",
           ToString(t))

\* A response stored by an earlier run of the worker.
PersistedResponse == Response(200, "OK", "application/octet-stream", "persisted")

\* new Response('Offline', { status: 503 }), line 119.
OfflineResponse == Response(503, "", "text/plain;charset=UTF-8", "Offline")

\* The offline page of networkFirst, lines 149-205.
OfflinePage ==
  Response(503, "Service Unavailable", "text/html", "<h1>Sin conexion</h1><button>Reintentar</button>")

NetStatuses == {200, 404}

(***************************************************************************)
(* A cache: a sequence of entries [url, response] in insertion order.      *)
(***************************************************************************)
Entry(url, response) == [url |-> url, response |-> response]

\* The entries without the one stored under url.
Without(entries, url) == SelectSeq(entries, LAMBDA e : e.url # url)

\* cache.match(request): the stored response, or undefined.
CacheMatch(entries, url) ==
  IF \E i \in 1..Len(entries) : entries[i].url = url
  THEN entries[CHOOSE i \in 1..Len(entries) : entries[i].url = url].response
  ELSE Undefined

\* cache.put that keeps the entry already stored under the URL.
CachePutFirstWins(entries, url, response) ==
  IF \E i \in 1..Len(entries) : entries[i].url = url
  THEN entries
  ELSE Append(entries, Entry(url, response))

\* cache.put that does not remove the entry already stored under the URL.
CachePutAppendOnly(entries, url, response) == Append(entries, Entry(url, response))

\* cache.put(request, response)
CachePut(entries, url, response) == Append(Without(entries, url), Entry(url, response))

\* cache.delete(request)
CacheDelete(entries, url) == Without(entries, url)

\* cache.keys()
CacheKeys(entries) == [i \in 1..Len(entries) |-> entries[i].url]

(***************************************************************************)
(* State.                                                                  *)
(***************************************************************************)
VARIABLES
  names,              \* Cache Storage: cache name -> id of the cache bound to it, 0 when unbound
  store,              \* cache id -> entries; a cache whose name was deleted keeps its id
  installPc,          \* install listener: "idle", "open", "done"
  skipWaitingCalled,  \* self.skipWaiting() has been called
  actPc,              \* activate listener: "idle", "keys", "delete", "done" (clients claimed)
  actTodo,            \* caches.delete calls of activate still pending
  actDeleted,         \* names activate has deleted
  msgPc,              \* clearCache command: "idle", "keys", "delete", "done"
  msgTodo,            \* caches.delete calls of clearCache still pending
  msgIssued,          \* the name -> id binding when clearCache was received
  msgKeys,            \* the name -> stored URLs when clearCache was received
  req,                \* task -> the request of its fetch event
  pc,                 \* task -> "idle", "passthrough", "open", "match", "fetch", "rematch", "done"
  responded,          \* task -> event.respondWith was called
  handle,             \* task -> id of the Cache the strategy opened, 0 when none
  outcome,            \* task -> the value the strategy's promise resolved with
  netCalls,           \* task -> number of fetch(request) calls
  netFailed,          \* task -> its fetch(request) rejected
  storeFailed,        \* task -> a Cache Storage call made for it rejected
  putState,           \* task -> its cache.put: "none", "pending", "stored", "failed"
  limPc,              \* task -> its limitCacheSize call: "none", "open", "keys", "delete", "done", "failed"
  limHandle,          \* task -> id of the Cache limitCacheSize opened
  limDel              \* task -> cache.delete calls of limitCacheSize still pending

storageVars == <<names, store>>

lifecycleVars == <<installPc, skipWaitingCalled, actPc, actTodo, actDeleted>>

messageVars == <<msgPc, msgTodo, msgIssued, msgKeys>>

handlerVars == <<req, pc, responded, handle, outcome, netCalls, netFailed>>

backgroundVars == <<putState, limPc, limHandle, limDel>>

vars == <<names, store, installPc, skipWaitingCalled, actPc, actTodo, actDeleted,
          msgPc, msgTodo, msgIssued, msgKeys, req, pc, responded, handle, outcome,
          netCalls, netFailed, storeFailed, putState, limPc, limHandle, limDel>>

(***************************************************************************)
(* Cache Storage operations.                                               *)
(***************************************************************************)
BoundNames == {n \in CacheNames : names[n] # 0}

\* caches.open(name): the id of the cache the call resolves with.
OpenId(name) == IF names[name] # 0 THEN names[name] ELSE Len(store) + 1

\* caches.open(name): the cache is created when the name is unbound.
CachesOpen(name) ==
  /\ names' = [names EXCEPT ![name] = OpenId(name)]
  /\ store' = IF names[name] # 0 THEN store ELSE Append(store, << >>)

\* caches.delete(name): the name is unbound; the Cache object lives on for its holders.
CachesDelete(name) ==
  /\ names' = [names EXCEPT ![name] = 0]
  /\ store' = store

\* The entries a lookup by name sees (none when the name is unbound).
Generation(name) == IF names[name] # 0 THEN store[names[name]] ELSE << >>

(***************************************************************************)
(* Cache Storage persists between runs of the worker.  WarmStorage is what *)
(* earlier runs of this version left: the current caches, the dynamic one  *)
(* filled to its bound, and a cache of another script.  UpgradeStorage is  *)
(* what version v0 left to a newly installed v1.                           *)
(***************************************************************************)
FillerPath(i) == <<"/pages", "/page-", ToString(i)>>

FullDynamic ==
  [i \in 1..MAX_DYNAMIC_CACHE_SIZE |->
     IF i = MAX_DYNAMIC_CACHE_SIZE THEN Entry(WidgetPath, PersistedResponse)
     ELSE Entry(FillerPath(i), PersistedResponse)]

WarmStorage ==
  [names |-> [n \in CacheNames |->
                IF n = STATIC_CACHE THEN 1
                ELSE IF n = DYNAMIC_CACHE THEN 2
                ELSE IF n = FOREIGN_CACHE THEN 3 ELSE 0],
   store |-> << <<Entry(CssPath, PersistedResponse)>>,
                FullDynamic,
                <<Entry(CartPath, PersistedResponse)>> >>]

UpgradeStorage ==
  [names |-> [n \in CacheNames |->
                IF n = OLD_STATIC_CACHE THEN 1
                ELSE IF n = OLD_DYNAMIC_CACHE THEN 2
                ELSE IF n = FOREIGN_CACHE THEN 3 ELSE 0],
   store |-> << <<Entry(CssPath, PersistedResponse)>>,
                <<Entry(WidgetPath, PersistedResponse)>>,
                <<Entry(CartPath, PersistedResponse)>> >>]

\* No fetch event and no clearCache command has arrived yet.
InitHandlers ==
  /\ msgPc = "idle"
  /\ msgTodo = {}
  /\ msgIssued = [n \in CacheNames |-> 0]
  /\ msgKeys = [n \in CacheNames |-> {}]
  /\ req = [t \in Tasks |-> NoRequest]
  /\ pc = [t \in Tasks |-> "idle"]
  /\ responded = [t \in Tasks |-> FALSE]
  /\ handle = [t \in Tasks |-> 0]
  /\ outcome = [t \in Tasks |-> Undefined]
  /\ netCalls = [t \in Tasks |-> 0]
  /\ netFailed = [t \in Tasks |-> FALSE]
  /\ storeFailed = [t \in Tasks |-> FALSE]
  /\ putState = [t \in Tasks |-> "none"]
  /\ limPc = [t \in Tasks |-> "none"]
  /\ limHandle = [t \in Tasks |-> 0]
  /\ limDel = [t \in Tasks |-> {}]

\* The activated worker, started by the browser to handle events.
Init ==
  /\ names = WarmStorage.names
  /\ store = WarmStorage.store
  /\ installPc = "done"
  /\ skipWaitingCalled = TRUE
  /\ actPc = "done"
  /\ actTodo = {}
  /\ actDeleted = {}
  /\ InitHandlers

\* The worker as the browser starts to install it: version v1 replacing v0, or
\* a changed script whose CACHE_VERSION was left at v1.
InitInstall ==
  /\ \E s \in {UpgradeStorage, WarmStorage} : names = s.names /\ store = s.store
  /\ installPc = "idle"
  /\ skipWaitingCalled = FALSE
  /\ actPc = "idle"
  /\ actTodo = {}
  /\ actDeleted = {}
  /\ InitHandlers

(***************************************************************************)
(* install listener, lines 24-37.                                          *)
(***************************************************************************)
InstallEvent ==
  /\ installPc = "idle"
  /\ installPc' = "open"
  /\ UNCHANGED <<storageVars, skipWaitingCalled, actPc, actTodo, actDeleted,
                 messageVars, handlerVars, backgroundVars, storeFailed>>

\* An install that opens the dynamic cache as well.
InstallOpenedBothCaches ==
  /\ installPc = "open"
  /\ LET missing == {n \in {STATIC_CACHE, DYNAMIC_CACHE} : names[n] = 0} IN
       /\ names' = [n \in CacheNames |->
                      IF n \notin missing THEN names[n]
                      ELSE IF n = STATIC_CACHE \/ Cardinality(missing) = 1 THEN Len(store) + 1
                      ELSE Len(store) + 2]
       /\ store' = store \o [i \in 1..Cardinality(missing) |-> << >>]
  /\ skipWaitingCalled' = TRUE
  /\ installPc' = "done"
  /\ UNCHANGED <<actPc, actTodo, actDeleted, messageVars, handlerVars,
                 backgroundVars, storeFailed>>

\* caches.open(STATIC_CACHE) resolves; nothing is stored; self.skipWaiting().
InstallOpened ==
  /\ installPc = "open"
  /\ CachesOpen(STATIC_CACHE)
  /\ skipWaitingCalled' = TRUE
  /\ installPc' = "done"
  /\ UNCHANGED <<actPc, actTodo, actDeleted, messageVars, handlerVars,
                 backgroundVars, storeFailed>>

(***************************************************************************)
(* activate listener, lines 40-62.                                         *)
(***************************************************************************)
\* The filter of lines 48-53 without the comparison with the current names.
ActivateDeletesAnyVersion(cacheName) == StartsWith(cacheName, <<"shopify-theme-">>)

\* The filter of lines 48-53 with only the static name spared.
ActivateDeletesSparingStatic(cacheName) ==
  /\ StartsWith(cacheName, <<"shopify-theme-">>)
  /\ EndsWithOneOf(cacheName, {"-static"})
  /\ cacheName # STATIC_CACHE

ActivateDeletes(cacheName) ==
  /\ StartsWith(cacheName, <<"shopify-theme-">>)
  /\ cacheName # STATIC_CACHE
  /\ cacheName # DYNAMIC_CACHE

ActivateEvent ==
  /\ installPc = "done"
  /\ actPc = "idle"
  /\ actPc' = "keys"
  /\ UNCHANGED <<storageVars, installPc, skipWaitingCalled, actTodo, actDeleted,
                 messageVars, handlerVars, backgroundVars, storeFailed>>

\* caches.keys() resolves: one caches.delete is issued per filtered name.
ActivateKeys ==
  /\ actPc = "keys"
  /\ actTodo' = {n \in BoundNames : ActivateDeletes(n)}
  /\ actPc' = IF actTodo' = {} THEN "done" ELSE "delete"
  /\ UNCHANGED <<storageVars, installPc, skipWaitingCalled, actDeleted,
                 messageVars, handlerVars, backgroundVars, storeFailed>>

\* One caches.delete completes; after the last one, self.clients.claim().
ActivateDelete(n) ==
  /\ actPc = "delete"
  /\ n \in actTodo
  /\ CachesDelete(n)
  /\ actTodo' = actTodo \ {n}
  /\ actDeleted' = actDeleted \cup {n}
  /\ actPc' = IF actTodo' = {} THEN "done" ELSE "delete"
  /\ UNCHANGED <<installPc, skipWaitingCalled, messageVars, handlerVars,
                 backgroundVars, storeFailed>>

(***************************************************************************)
(* message listener, lines 233-247.                                        *)
(***************************************************************************)
\* The names clearCache deletes, had it reused the filter of activate.
ClearCacheDeletesStaleOnly(cacheNames) == {n \in cacheNames : ActivateDeletes(n)}

ClearCacheDeletes(cacheNames) == cacheNames

MessageSkipWaiting ==
  /\ skipWaitingCalled' = TRUE
  /\ UNCHANGED <<storageVars, installPc, actPc, actTodo, actDeleted, messageVars,
                 handlerVars, backgroundVars, storeFailed>>

MessageClearCache ==
  /\ msgPc = "idle"
  /\ msgPc' = "keys"
  /\ msgIssued' = names
  /\ msgKeys' = [n \in CacheNames |->
                   {Generation(n)[i].url : i \in 1..Len(Generation(n))}]
  /\ UNCHANGED <<storageVars, lifecycleVars, msgTodo, handlerVars, backgroundVars, storeFailed>>

\* caches.keys() resolves: one caches.delete is issued per name.
ClearCacheKeys ==
  /\ msgPc = "keys"
  /\ msgTodo' = ClearCacheDeletes(BoundNames)
  /\ msgPc' = IF msgTodo' = {} THEN "done" ELSE "delete"
  /\ UNCHANGED <<storageVars, lifecycleVars, msgIssued, msgKeys, handlerVars, backgroundVars, storeFailed>>

ClearCacheDelete(n) ==
  /\ msgPc = "delete"
  /\ n \in msgTodo
  /\ CachesDelete(n)
  /\ msgTodo' = msgTodo \ {n}
  /\ msgPc' = IF msgTodo' = {} THEN "done" ELSE "delete"
  /\ UNCHANGED <<lifecycleVars, msgIssued, msgKeys, handlerVars, backgroundVars, storeFailed>>

(***************************************************************************)
(* fetch listener, lines 65-93.                                            *)
(***************************************************************************)
\* A fetch event arrives.  The listener returns without respondWith (the
\* browser handles the request itself), or calls respondWith with the promise
\* of a strategy, whose first act is caches.open.
FetchEvent(t, request) ==
  /\ pc[t] = "idle"
  /\ IF t = 1 THEN TRUE ELSE pc[t - 1] # "idle"
  /\ req' = [req EXCEPT ![t] = request]
  /\ responded' = [responded EXCEPT ![t] = Dispatch(request) # "none"]
  /\ pc' = [pc EXCEPT ![t] = IF Dispatch(request) = "none" THEN "passthrough" ELSE "open"]
  /\ UNCHANGED <<storageVars, lifecycleVars, messageVars, handle, outcome, netCalls, netFailed,
                 backgroundVars, storeFailed>>

(***************************************************************************)
(* cacheFirst, lines 96-121.                                               *)
(***************************************************************************)
\* if (cached), inverted.
ServesCachedInverted(cached) == ~Truthy(cached)

\* if (cached), line 100
ServesCached(cached) == Truthy(cached)

\* if (response.status === 200) without the comparison.
ShouldCacheAnyStatus(response) == TRUE

\* if (response.status < 500)
ShouldCacheBelow500(response) == response.status < 500

\* if (response.status === 200), lines 109 and 131
ShouldCache(response) == response.status = 200

\* cache.match(request) || new Response('Offline', { status: 503 }), line 119:
\* the left operand is the promise cache.match returns.
CacheFirstCatchValue == JsOr(MatchPromise, OfflineResponse)

\* const cache = await caches.open(STATIC_CACHE); cache.match(request) is called.
CacheFirstOpened(t) ==
  /\ pc[t] = "open"
  /\ Dispatch(req[t]) = "cacheFirst"
  /\ handle' = [handle EXCEPT ![t] = OpenId(STATIC_CACHE)]
  /\ CachesOpen(STATIC_CACHE)
  /\ pc' = [pc EXCEPT ![t] = "match"]
  /\ UNCHANGED <<lifecycleVars, messageVars, req, responded, netFailed, outcome, netCalls,
                 backgroundVars, storeFailed>>

\* const cached = await cache.match(request): a hit is returned, a miss calls fetch.
CacheFirstMatched(t) ==
  /\ pc[t] = "match"
  /\ Dispatch(req[t]) = "cacheFirst"
  /\ LET cached == CacheMatch(store[handle[t]], req[t].path) IN
       IF ServesCached(cached)
       THEN /\ outcome' = [outcome EXCEPT ![t] = cached]
            /\ pc' = [pc EXCEPT ![t] = "done"]
            /\ netCalls' = netCalls
       ELSE /\ outcome' = outcome
            /\ pc' = [pc EXCEPT ![t] = "fetch"]
            /\ netCalls' = [netCalls EXCEPT ![t] = @ + 1]
  /\ UNCHANGED <<storageVars, lifecycleVars, messageVars, req, responded, netFailed, handle,
                 backgroundVars, storeFailed>>

\* const response = await fetch(request) resolves: a 200 response is cloned and
\* handed to cache.put, which is not awaited; the response is returned.
CacheFirstFetched(t, status) ==
  /\ pc[t] = "fetch"
  /\ Dispatch(req[t]) = "cacheFirst"
  /\ LET response == NetworkResponse(status, t) IN
       /\ putState' = [putState EXCEPT ![t] = IF ShouldCache(response) THEN "pending" ELSE @]
       /\ outcome' = [outcome EXCEPT ![t] = response]
  /\ pc' = [pc EXCEPT ![t] = "done"]
  /\ UNCHANGED <<storageVars, lifecycleVars, messageVars, req, responded, netFailed, handle,
                 netCalls, limPc, limHandle, limDel, storeFailed>>

\* fetch rejects: the catch block returns CacheFirstCatchValue; a promise
\* returned from an async function is awaited by it.
CacheFirstFetchFailed(t) ==
  /\ pc[t] = "fetch"
  /\ Dispatch(req[t]) = "cacheFirst"
  /\ IF CacheFirstCatchValue.tag = "promise"
     THEN /\ pc' = [pc EXCEPT ![t] = "rematch"]
          /\ outcome' = outcome
     ELSE /\ pc' = [pc EXCEPT ![t] = "done"]
          /\ outcome' = [outcome EXCEPT ![t] = CacheFirstCatchValue]
  /\ netFailed' = [netFailed EXCEPT ![t] = TRUE]
  /\ UNCHANGED <<storageVars, lifecycleVars, messageVars, req, responded, handle,
                 netCalls, backgroundVars, storeFailed>>

\* The promise of cache.match in the catch block resolves, and with it cacheFirst.
CacheFirstRematched(t) ==
  /\ pc[t] = "rematch"
  /\ outcome' = [outcome EXCEPT ![t] = CacheMatch(store[handle[t]], req[t].path)]
  /\ pc' = [pc EXCEPT ![t] = "done"]
  /\ UNCHANGED <<storageVars, lifecycleVars, messageVars, req, responded, netFailed, handle,
                 netCalls, backgroundVars, storeFailed>>

(***************************************************************************)
(* networkFirst, lines 124-207.                                            *)
(***************************************************************************)
\* The offline page with the status of a successful response.
NetworkFirstFallbackOk(cached) ==
  IF Truthy(cached) THEN cached
  ELSE Response(200, "OK", "text/html", OfflinePage.body)

\* The catch block without the lookup: the offline page in every case.
NetworkFirstFallbackAlwaysOffline(cached) == OfflinePage

\* if (cached) return cached; return new Response(...), lines 144-205
NetworkFirstFallback(cached) == IF Truthy(cached) THEN cached ELSE OfflinePage

\* const cache = await caches.open(DYNAMIC_CACHE); fetch(request) is called.
NetworkFirstOpened(t) ==
  /\ pc[t] = "open"
  /\ Dispatch(req[t]) = "networkFirst"
  /\ handle' = [handle EXCEPT ![t] = OpenId(DYNAMIC_CACHE)]
  /\ CachesOpen(DYNAMIC_CACHE)
  /\ pc' = [pc EXCEPT ![t] = "fetch"]
  /\ netCalls' = [netCalls EXCEPT ![t] = @ + 1]
  /\ UNCHANGED <<lifecycleVars, messageVars, req, responded, netFailed, outcome,
                 backgroundVars, storeFailed>>

\* fetch resolves: a 200 response is cloned and handed to cache.put, then
\* limitCacheSize is called, neither awaited; the response is returned.
NetworkFirstFetched(t, status) ==
  /\ pc[t] = "fetch"
  /\ Dispatch(req[t]) = "networkFirst"
  /\ LET response == NetworkResponse(status, t) IN
       /\ putState' = [putState EXCEPT ![t] = IF ShouldCache(response) THEN "pending" ELSE @]
       /\ limPc' = [limPc EXCEPT ![t] = IF ShouldCache(response) THEN "open" ELSE @]
       /\ outcome' = [outcome EXCEPT ![t] = response]
  /\ pc' = [pc EXCEPT ![t] = "done"]
  /\ UNCHANGED <<storageVars, lifecycleVars, messageVars, req, responded, netFailed, handle,
                 netCalls, limHandle, limDel, storeFailed>>

\* fetch rejects: the catch block calls cache.match.
NetworkFirstFetchFailed(t) ==
  /\ pc[t] = "fetch"
  /\ Dispatch(req[t]) = "networkFirst"
  /\ pc' = [pc EXCEPT ![t] = "match"]
  /\ netFailed' = [netFailed EXCEPT ![t] = TRUE]
  /\ UNCHANGED <<storageVars, lifecycleVars, messageVars, req, responded, handle,
                 outcome, netCalls, backgroundVars, storeFailed>>

\* const cached = await cache.match(request) in the catch block.
NetworkFirstMatched(t) ==
  /\ pc[t] = "match"
  /\ Dispatch(req[t]) = "networkFirst"
  /\ outcome' = [outcome EXCEPT ![t] =
                   NetworkFirstFallback(CacheMatch(store[handle[t]], req[t].path))]
  /\ pc' = [pc EXCEPT ![t] = "done"]
  /\ UNCHANGED <<storageVars, lifecycleVars, messageVars, req, responded, netFailed, handle,
                 netCalls, backgroundVars, storeFailed>>

(***************************************************************************)
(* The calls the strategies do not await.                                  *)
(***************************************************************************)
\* cache.put(request, clonedResponse) of lines 111 and 133 completes.
PutCompleted(t) ==
  /\ putState[t] = "pending"
  /\ store' = [store EXCEPT ![handle[t]] = CachePut(@, req[t].path, outcome[t])]
  /\ putState' = [putState EXCEPT ![t] = "stored"]
  /\ UNCHANGED <<names, lifecycleVars, messageVars, handlerVars, limPc, limHandle,
                 limDel, storeFailed>>

(***************************************************************************)
(* limitCacheSize, lines 210-220, called with DYNAMIC_CACHE and            *)
(* MAX_DYNAMIC_CACHE_SIZE.                                                 *)
(***************************************************************************)
\* keys.slice(0, keys.length - maxSize), line 216
KeysToDelete(keys, maxSize) == SubSeq(keys, 1, Len(keys) - maxSize)

\* const cache = await caches.open(cacheName); cache.keys() is called.
LimitOpened(t) ==
  /\ limPc[t] = "open"
  /\ limHandle' = [limHandle EXCEPT ![t] = OpenId(DYNAMIC_CACHE)]
  /\ CachesOpen(DYNAMIC_CACHE)
  /\ limPc' = [limPc EXCEPT ![t] = "keys"]
  /\ UNCHANGED <<lifecycleVars, messageVars, handlerVars, putState, limDel, storeFailed>>

\* const keys = await cache.keys(): over the bound, one cache.delete per oldest key.
LimitKeys(t) ==
  /\ limPc[t] = "keys"
  /\ LET keys == CacheKeys(store[limHandle[t]]) IN
       IF Len(keys) > MAX_DYNAMIC_CACHE_SIZE
       THEN /\ limDel' = [limDel EXCEPT ![t] =
                            {KeysToDelete(keys, MAX_DYNAMIC_CACHE_SIZE)[i] :
                               i \in 1..(Len(keys) - MAX_DYNAMIC_CACHE_SIZE)}]
            /\ limPc' = [limPc EXCEPT ![t] = "delete"]
       ELSE /\ limDel' = limDel
            /\ limPc' = [limPc EXCEPT ![t] = "done"]
  /\ UNCHANGED <<storageVars, lifecycleVars, messageVars, handlerVars, putState,
                 limHandle, storeFailed>>

\* One cache.delete(key) of line 217 completes.
LimitDelete(t, key) ==
  /\ limPc[t] = "delete"
  /\ key \in limDel[t]
  /\ store' = [store EXCEPT ![limHandle[t]] = CacheDelete(@, key)]
  /\ limDel' = [limDel EXCEPT ![t] = @ \ {key}]
  /\ limPc' = [limPc EXCEPT ![t] = IF limDel'[t] = {} THEN "done" ELSE "delete"]
  /\ UNCHANGED <<names, lifecycleVars, messageVars, handlerVars, putState,
                 limHandle, storeFailed>>

(***************************************************************************)
(* Cache Storage calls that reject (storage unavailable, quota exceeded).  *)
(***************************************************************************)
\* await caches.open(...) of line 97 or 125 rejects: the await stands outside
\* the try block, so the strategy's promise rejects.
OpenFailed(t) ==
  /\ pc[t] = "open"
  /\ outcome' = [outcome EXCEPT ![t] = Rejected]
  /\ pc' = [pc EXCEPT ![t] = "done"]
  /\ storeFailed' = [storeFailed EXCEPT ![t] = TRUE]
  /\ UNCHANGED <<storageVars, lifecycleVars, messageVars, req, responded, handle,
                 netCalls, netFailed, backgroundVars>>

\* cache.match(request) of line 98, 119 or 142 rejects: none of the three is
\* inside a try block that catches it, so the strategy's promise rejects.
MatchFailed(t) ==
  /\ pc[t] \in {"match", "rematch"}
  /\ outcome' = [outcome EXCEPT ![t] = Rejected]
  /\ pc' = [pc EXCEPT ![t] = "done"]
  /\ storeFailed' = [storeFailed EXCEPT ![t] = TRUE]
  /\ UNCHANGED <<storageVars, lifecycleVars, messageVars, req, responded, handle,
                 netCalls, netFailed, backgroundVars>>

\* cache.put of line 111 or 133 rejects: its promise is held by nobody.
PutFailed(t) ==
  /\ putState[t] = "pending"
  /\ putState' = [putState EXCEPT ![t] = "failed"]
  /\ storeFailed' = [storeFailed EXCEPT ![t] = TRUE]
  /\ UNCHANGED <<storageVars, lifecycleVars, messageVars, handlerVars, limPc,
                 limHandle, limDel>>

\* caches.open or cache.keys of limitCacheSize rejects, or one of its
\* cache.delete calls does: the promise of limitCacheSize, held by nobody,
\* rejects.
LimitFailed(t) ==
  /\ limPc[t] \in {"open", "keys", "delete"}
  /\ limPc' = [limPc EXCEPT ![t] = "failed"]
  /\ limDel' = [limDel EXCEPT ![t] = {}]
  /\ storeFailed' = [storeFailed EXCEPT ![t] = TRUE]
  /\ UNCHANGED <<storageVars, lifecycleVars, messageVars, handlerVars, putState,
                 limHandle>>

(***************************************************************************)
(* Specifications.                                                         *)
(***************************************************************************)
\* The steps of the strategies, with Cache Storage answering every call.
Handling ==
  \/ \E t \in Tasks : CacheFirstOpened(t)
  \/ \E t \in Tasks : CacheFirstMatched(t)
  \/ \E t \in Tasks, status \in NetStatuses : CacheFirstFetched(t, status)
  \/ \E t \in Tasks : CacheFirstFetchFailed(t)
  \/ \E t \in Tasks : CacheFirstRematched(t)
  \/ \E t \in Tasks : NetworkFirstOpened(t)
  \/ \E t \in Tasks, status \in NetStatuses : NetworkFirstFetched(t, status)
  \/ \E t \in Tasks : NetworkFirstFetchFailed(t)
  \/ \E t \in Tasks : NetworkFirstMatched(t)
  \/ \E t \in Tasks : PutCompleted(t)
  \/ \E t \in Tasks : LimitOpened(t)
  \/ \E t \in Tasks : LimitKeys(t)
  \/ \E t \in Tasks : \E key \in limDel[t] : LimitDelete(t, key)

Commands ==
  \/ MessageSkipWaiting
  \/ MessageClearCache
  \/ ClearCacheKeys
  \/ \E n \in CacheNames : ClearCacheDelete(n)

Lifecycle ==
  \/ InstallEvent
  \/ InstallOpened
  \/ ActivateEvent
  \/ ActivateKeys
  \/ \E n \in CacheNames : ActivateDelete(n)

StoreFaults ==
  \/ \E t \in Tasks : OpenFailed(t)
  \/ \E t \in Tasks : MatchFailed(t)
  \/ \E t \in Tasks : PutFailed(t)
  \/ \E t \in Tasks : LimitFailed(t)

\* The activated worker serving fetch events, in any interleaving.
Next ==
  \/ \E t \in Tasks, request \in Requests : FetchEvent(t, request)
  \/ Handling

Spec == Init /\ [][Next]_vars

\* The activated worker serving fetch events and commands, in any interleaving.
NextCommands ==
  \/ \E t \in 1..MaxInterleaved, request \in Requests : FetchEvent(t, request)
  \/ Handling
  \/ Commands

SpecCommands == Init /\ [][NextCommands]_vars

\* The worker from its install event on, with fetch events in any interleaving.
NextLifecycle ==
  \/ \E t \in 1..MaxInterleaved, request \in Requests : FetchEvent(t, request)
  \/ Handling
  \/ Lifecycle

SpecLifecycle == InitInstall /\ [][NextLifecycle]_vars

\* The activated worker serving fetch events while Cache Storage calls may reject.
NextStoreFaults == Next \/ StoreFaults

SpecStoreFaults == Init /\ [][NextStoreFaults]_vars

\* The event loop runs the continuation of every settled promise: a step of a
\* strategy, of a cache.put or of limitCacheSize that can be taken is taken.
\* Fetch events need not arrive.
SpecLive == Spec /\ WF_vars(Handling)

(***************************************************************************)
(* Properties.                                                             *)
(***************************************************************************)
\* The cache a strategy works on.
StrategyCache(t) ==
  IF Dispatch(req[t]) = "cacheFirst" THEN STATIC_CACHE ELSE DYNAMIC_CACHE

\* Every handler, every cache.put and every limitCacheSize call has finished.
Quiescent ==
  \A t \in Tasks :
    /\ pc[t] \in {"idle", "passthrough", "done"}
    /\ putState[t] # "pending"
    /\ limPc[t] \notin {"open", "keys", "delete"}

\* The request of task t is one the fetch listener must leave alone.
C1_ExcludedRequest(t) ==
  /\ req[t] # NoRequest
  /\ \/ req[t].method # "GET"
     \/ Includes(req[t].path, <<"/admin">>)
     \/ Includes(req[t].path, <<"/checkout">>)
     \/ Includes(req[t].path, <<"/cart", "/add">>)
     \/ Includes(req[t].path, <<"/cart", "/update">>)

\* C1: a fetch event whose request is not a GET, or whose path contains
\* /admin, /checkout, /cart/add or /cart/update (whatever its extension), is
\* left to the browser: respondWith is not called, no cache is opened, read or
\* written for it, no fetch is made by the worker, and the step that handles
\* the event leaves Cache Storage as it was.
C1_ExcludedBypass ==
  /\ [](\A t \in Tasks :
          C1_ExcludedRequest(t) =>
            /\ pc[t] = "passthrough"
            /\ ~responded[t]
            /\ handle[t] = 0
            /\ netCalls[t] = 0
            /\ putState[t] = "none"
            /\ limPc[t] = "none"
            /\ limHandle[t] = 0)
  /\ [][\A t \in Tasks :
          (pc[t] = "idle" /\ C1_ExcludedRequest(t)') => UNCHANGED <<names, store>>]_vars

\* An excluded path with a static extension was passed through while another
\* request was being served from the caches.
C1_Witness ==
  \E t, u \in Tasks :
    /\ pc[t] = "passthrough"
    /\ req[t] = [method |-> "GET", path |-> AdminCssPath]
    /\ pc[u] = "done"
    /\ putState[u] = "stored"

\* C2: when cacheFirst looks a static-asset or image request up and the static
\* cache it opened holds an entry for it, the handler finishes with that stored
\* response and calls fetch not once.
C2_CachedServedWithoutNetwork ==
  [][\A t \in Tasks :
       (/\ pc[t] = "match"
        /\ pc'[t] # "match"
        /\ req[t].method = "GET"
        /\ isStaticAsset(req[t].path) \/ isImage(req[t].path)
        /\ \E i \in 1..Len(store[handle[t]]) : store[handle[t]][i].url = req[t].path)
       => /\ pc'[t] = "done"
          /\ \E i \in 1..Len(store[handle[t]]) :
               store[handle[t]][i] = Entry(req[t].path, outcome'[t])
          /\ netCalls'[t] = 0
          /\ netCalls' = netCalls]_vars

\* An image was fetched with status 200 and stored by one request, and the
\* same request, repeated, was answered with that response without a fetch.
C2_Witness ==
  \E t, u \in Tasks :
    /\ t # u
    /\ req[t] = [method |-> "GET", path |-> PngPath]
    /\ req[u] = req[t]
    /\ netCalls[t] = 1
    /\ putState[t] = "stored"
    /\ pc[u] = "done"
    /\ netCalls[u] = 0
    /\ outcome[u] = outcome[t]
    /\ outcome[u].status = 200

\* C3: once every handler, cache.put and limitCacheSize call has finished, the
\* dynamic cache holds at most MAX_DYNAMIC_CACHE_SIZE entries.
C3_DynamicBoundedAtRest ==
  Quiescent => Len(Generation(DYNAMIC_CACHE)) <= MAX_DYNAMIC_CACHE_SIZE

\* C4: a cacheFirst handler whose fetch rejected finishes with a response: the
\* cached entry, or else the synthesized response of status 503; never with
\* undefined and never rejected.
C4_CacheFirstOfflineResponse ==
  \A t \in Tasks :
    (/\ pc[t] = "done"
     /\ req[t].method = "GET"
     /\ isStaticAsset(req[t].path) \/ isImage(req[t].path)
     /\ netFailed[t])
    => /\ outcome[t].tag = "response"
       /\ \/ outcome[t].status = 503
          \/ \E i \in 1..Len(store[handle[t]]) :
               store[handle[t]][i] = Entry(req[t].path, outcome[t])

\* C5: when the fetch of networkFirst rejected and the dynamic cache it opened
\* holds no entry for the request, the handler finishes with a response of
\* status 503, status text Service Unavailable and content type text/html.
C5_NetworkFirstOfflinePage ==
  [][\A t \in Tasks :
       (/\ pc[t] = "match"
        /\ pc'[t] # "match"
        /\ Dispatch(req[t]) = "networkFirst"
        /\ netFailed[t]
        /\ \A i \in 1..Len(store[handle[t]]) : store[handle[t]][i].url # req[t].path)
       => /\ pc'[t] = "done"
          /\ outcome'[t].tag = "response"
          /\ outcome'[t].status = 503
          /\ outcome'[t].statusText = "Service Unavailable"
          /\ outcome'[t].contentType = "text/html"]_vars

\* A page that is not in the dynamic cache was requested, the fetch rejected,
\* and the handler finished with the offline page.
C5_Witness ==
  \E t \in Tasks :
    /\ req[t] = [method |-> "GET", path |-> CartPath]
    /\ pc[t] = "done"
    /\ netFailed[t]
    /\ names[DYNAMIC_CACHE] = handle[t]
    /\ \A i \in 1..Len(store[handle[t]]) : store[handle[t]][i].url # CartPath
    /\ outcome[t].status = 503
    /\ outcome[t].statusText = "Service Unavailable"

\* C6: once the activate handler has completed, no cache name that starts
\* with shopify-theme- and is neither STATIC_CACHE nor DYNAMIC_CACHE is bound,
\* and every cache a strategy opened is still the one bound to its current
\* name, so what the strategies store stays reachable by name.
C6_NoStaleGenerationAfterActivate ==
  actPc = "done" =>
    /\ \A n \in BoundNames :
         StartsWith(n, <<"shopify-theme-">>) => n \in {STATIC_CACHE, DYNAMIC_CACHE}
    /\ \A t \in Tasks : handle[t] # 0 => names[StrategyCache(t)] = handle[t]

\* Activation deleted both caches of version v0 while a response stored by a
\* strategy can be looked up in its current cache.
C6_Witness ==
  /\ actPc = "done"
  /\ actDeleted = {OLD_STATIC_CACHE, OLD_DYNAMIC_CACHE}
  /\ \E t \in Tasks :
       /\ putState[t] = "stored"
       /\ CacheMatch(Generation(StrategyCache(t)), req[t].path) = outcome[t]

\* C7: in every interleaving with requests in flight, the activate handler
\* neither schedules nor performs the deletion of STATIC_CACHE or
\* DYNAMIC_CACHE, and a deletion it performs leaves the binding and the
\* entries of both current caches as they were.
C7_RotationSparesCurrent ==
  /\ [](/\ actTodo \cap {STATIC_CACHE, DYNAMIC_CACHE} = {}
        /\ actDeleted \cap {STATIC_CACHE, DYNAMIC_CACHE} = {})
  /\ [][actDeleted' # actDeleted =>
          /\ names'[STATIC_CACHE] = names[STATIC_CACHE]
          /\ names'[DYNAMIC_CACHE] = names[DYNAMIC_CACHE]
          /\ Generation(STATIC_CACHE)' = Generation(STATIC_CACHE)
          /\ Generation(DYNAMIC_CACHE)' = Generation(DYNAMIC_CACHE)]_vars

\* Activation has deleted one stale cache and still has one to delete while a
\* request is in flight on the cache bound to its current name.
C7_Witness ==
  /\ actPc = "delete"
  /\ actDeleted # {}
  /\ \E t \in Tasks :
       /\ pc[t] \in {"match", "fetch"}
       /\ handle[t] # 0
       /\ names[StrategyCache(t)] = handle[t]

\* C8 as claimed: at the moment the clearCache command completes, a lookup in
\* the static and in the dynamic cache finds none of the URLs that were stored
\* when the command arrived.
C8_KeysAbsentAtCompletion ==
  [][(msgPc # "done" /\ msgPc' = "done") =>
       \A n \in {STATIC_CACHE, DYNAMIC_CACHE} : \A url \in msgKeys[n] :
         ~Truthy(CacheMatch(Generation(n), url))']_vars

\* C8, amended: once clearCache has completed, every cache that was bound
\* when the command arrived is bound to no name, whatever its name, and each
\* entry a lookup by name finds in the static or the dynamic cache was stored
\* by a request that opened that cache after the deletion.
C8_PurgedGenerationsUnreachable ==
  msgPc = "done" =>
    /\ \A n \in CacheNames : msgIssued[n] # 0 =>
         \A m \in CacheNames : names[m] # msgIssued[n]
    /\ \A n \in {STATIC_CACHE, DYNAMIC_CACHE} : \A i \in 1..Len(Generation(n)) :
         \E t \in Tasks :
           /\ handle[t] = names[n]
           /\ putState[t] = "stored"
           /\ Generation(n)[i] = Entry(req[t].path, outcome[t])

\* clearCache completed while a request held the static cache with a write
\* pending; the write has landed, and a lookup by name does not find it.
C8_Witness ==
  /\ msgPc = "done"
  /\ msgIssued[FOREIGN_CACHE] # 0
  /\ \E t \in Tasks :
       /\ putState[t] = "stored"
       /\ handle[t] = msgIssued[STATIC_CACHE]
       /\ CacheMatch(store[handle[t]], req[t].path) = outcome[t]
       /\ ~Truthy(CacheMatch(Generation(STATIC_CACHE), req[t].path))

\* C9: every entry of every cache holds a response of status 200, either left
\* by an earlier run or the response of status 200 the origin sent to the
\* request it is stored under; a handler that finished with anything but a
\* response of status 200 started no cache.put and no limitCacheSize.
C9_OnlyStatus200Stored ==
  /\ \A id \in 1..Len(store) : \A i \in 1..Len(store[id]) :
       /\ store[id][i].response.tag = "response"
       /\ store[id][i].response.status = 200
       /\ \/ store[id][i].response = PersistedResponse
          \/ \E t \in Tasks : store[id][i] = Entry(req[t].path, NetworkResponse(200, t))
  /\ \A t \in Tasks :
       (pc[t] = "done" /\ outcome[t].status # 200)
         => putState[t] = "none" /\ limPc[t] = "none"

\* A cacheFirst and a networkFirst handler both returned a 404 of the origin,
\* and neither cache has an entry for their requests.
C9_Witness ==
  \E t, u \in Tasks :
    /\ pc[t] = "done" /\ Dispatch(req[t]) = "cacheFirst"
    /\ outcome[t] = NetworkResponse(404, t)
    /\ ~Truthy(CacheMatch(Generation(STATIC_CACHE), req[t].path))
    /\ pc[u] = "done" /\ Dispatch(req[u]) = "networkFirst"
    /\ outcome[u] = NetworkResponse(404, u)
    /\ ~Truthy(CacheMatch(Generation(DYNAMIC_CACHE), req[u].path))

\* C10: a handler for which a Cache Storage call rejected still finishes with
\* a response; its promise does not reject.
C10_StoreFailureNotFatal ==
  \A t \in Tasks :
    (pc[t] = "done" /\ storeFailed[t]) => outcome[t].tag = "response"

\* The response of task t arrived before that of task u.
C11_RespondedBefore(t, u) ==
  /\ t # u
  /\ Dispatch(req[t]) = "networkFirst"
  /\ pc[t] = "done"
  /\ outcome[t] = NetworkResponse(200, t)
  /\ pc[u] \in {"idle", "open", "fetch"}

\* C11 as claimed: when a response of status 200 arrived for a dynamic-page
\* request after another one for the same key, then, once all writes have
\* finished, the entry of the dynamic cache for the key is the later response.
C11_LatestResponseStored ==
  \A t, u \in Tasks :
    [](C11_RespondedBefore(t, u) =>
         []((/\ Quiescent
             /\ req[u] = req[t]
             /\ outcome[u] = NetworkResponse(200, u))
            => CacheMatch(Generation(DYNAMIC_CACHE), req[u].path) = outcome[u]))

\* C11, amended: the write of a dynamic-page response that completes leaves
\* one entry for its key in the dynamic cache, in the newest position and
\* holding that response, whatever was stored for the key before; no other
\* step changes the entry of a key that is stored, except an eviction of
\* limitCacheSize, which removes it; and a networkFirst handler
\* whose fetch rejected and that returned a response of status 200 returned
\* the persisted entry or the response whose write had completed for its key.
C11_LastCompletedWriteStored ==
  /\ [][\A t \in Tasks :
          (/\ putState[t] = "pending"
           /\ putState'[t] = "stored"
           /\ Dispatch(req[t]) = "networkFirst")
          => LET after == Generation(DYNAMIC_CACHE)' IN
               /\ after[Len(after)] = Entry(req[t].path, outcome[t])
               /\ \A i \in 1..(Len(after) - 1) : after[i].url # req[t].path]_vars
  /\ [][<<names, store>>' # <<names, store>> =>
          \A p \in Paths :
            (/\ Truthy(CacheMatch(Generation(DYNAMIC_CACHE), p))
             /\ CacheMatch(Generation(DYNAMIC_CACHE), p)' # CacheMatch(Generation(DYNAMIC_CACHE), p))
            => \/ \E t \in Tasks :
                    /\ req[t].path = p
                    /\ putState[t] = "pending"
                    /\ putState'[t] = "stored"
               \/ \E t \in Tasks :
                    /\ p \in limDel[t]
                    /\ p \notin limDel'[t]
                    /\ ~Truthy(CacheMatch(Generation(DYNAMIC_CACHE), p))']_vars
  /\ [](\A u \in Tasks :
          (/\ pc[u] = "done"
           /\ netFailed[u]
           /\ outcome[u].status = 200
           /\ Dispatch(req[u]) = "networkFirst")
          => \/ outcome[u] = PersistedResponse
             \/ \E t \in Tasks :
                  /\ req[t] = req[u]
                  /\ putState[t] = "stored"
                  /\ outcome[u] = NetworkResponse(200, t))

\* A response of status 200 replaced the persisted entry of a page, and a
\* later request for the page, whose fetch rejected, was answered with it.
C11_Witness ==
  \E t, u \in Tasks :
    /\ req[t] = [method |-> "GET", path |-> WidgetPath]
    /\ req[u] = req[t]
    /\ putState[t] = "stored"
    /\ pc[u] = "done"
    /\ netFailed[u]
    /\ outcome[u] = NetworkResponse(200, t)
    /\ CacheMatch(Generation(DYNAMIC_CACHE), WidgetPath) = outcome[u]

\* cacheFirst has returned the network's response of status 200 to task t,
\* and the fetch event of task u has not arrived yet.
C12_ReturnedBefore(t, u) ==
  /\ t # u
  /\ Dispatch(req[t]) = "cacheFirst"
  /\ pc[t] = "done"
  /\ outcome[t] = NetworkResponse(200, t)
  /\ pc[u] = "idle"

\* C12: once cacheFirst has returned a network response of status 200 for a
\* request, the response is stored in the static cache, so that an identical
\* request made from then on which gets no response from the network is
\* answered with the stored response.
C12_RepeatServedFromCache ==
  \A t, u \in Tasks :
    [](C12_ReturnedBefore(t, u) =>
         []((/\ req[u] = req[t]
             /\ pc[u] = "done"
             /\ netFailed[u] \/ netCalls[u] = 0)
            => outcome[u] = outcome[t]))

\* C13: networkFirst returns a response of status 200 only after the
\* response has been stored and limitCacheSize has run, and the key list
\* limitCacheSize reads for a request contains the entry stored for it.
C13_StoreEvictReturnInOrder ==
  /\ [](\A t \in Tasks :
          (/\ Dispatch(req[t]) = "networkFirst"
           /\ pc[t] = "done"
           /\ outcome[t] = NetworkResponse(200, t))
          => putState[t] = "stored" /\ limPc[t] = "done")
  /\ [][\A t \in Tasks :
          (limPc[t] = "keys" /\ limPc'[t] # "keys")
          => /\ putState[t] = "stored"
             /\ \E i \in 1..Len(store[limHandle[t]]) :
                  store[limHandle[t]][i] = Entry(req[t].path, outcome[t])]_vars

\* C14: a run of limitCacheSize that reads n keys schedules the deletion of
\* the n - MAX_DYNAMIC_CACHE_SIZE oldest of them when n exceeds the bound and
\* of none otherwise; also with other runs and writes interleaved, an entry it
\* removes is one of the oldest entries beyond the bound, and a run that
\* deleted leaves exactly MAX_DYNAMIC_CACHE_SIZE entries.
C14_EvictsOldestBeyondBound ==
  /\ [][\A t \in Tasks :
          (limPc[t] = "keys" /\ limPc'[t] # "keys")
          => LET keys == CacheKeys(store[limHandle[t]])
                 n == Len(keys) IN
               /\ store' = store
               /\ IF n > MAX_DYNAMIC_CACHE_SIZE
                  THEN limDel'[t] = {keys[i] : i \in 1..(n - MAX_DYNAMIC_CACHE_SIZE)}
                  ELSE limDel'[t] = {} /\ limPc'[t] = "done"]_vars
  /\ [][\A t \in Tasks :
          (limPc[t] = "delete" /\ limDel'[t] # limDel[t])
          => LET before == store[limHandle[t]]
                 after == store'[limHandle[t]] IN
               /\ \A i \in 1..Len(before) :
                    (\A j \in 1..Len(after) : after[j] # before[i])
                      => i <= Len(before) - MAX_DYNAMIC_CACHE_SIZE
               /\ limPc'[t] = "done" => Len(after) = MAX_DYNAMIC_CACHE_SIZE]_vars

\* C15: when the fetch of networkFirst rejected and the dynamic cache it
\* opened holds an entry for the request, the handler finishes with the stored
\* response, the step leaves Cache Storage as it was, and the handler has
\* started no cache.put and no limitCacheSize.
C15_NetworkFailureServesStored ==
  /\ [][\A t \in Tasks :
          (/\ pc[t] = "match"
           /\ pc'[t] # "match"
           /\ Dispatch(req[t]) = "networkFirst"
           /\ netFailed[t]
           /\ \E i \in 1..Len(store[handle[t]]) : store[handle[t]][i].url = req[t].path)
          => /\ pc'[t] = "done"
             /\ \E i \in 1..Len(store[handle[t]]) :
                  store[handle[t]][i] = Entry(req[t].path, outcome'[t])
             /\ outcome'[t] # OfflinePage
             /\ UNCHANGED <<names, store>>
             /\ putState'[t] = "none"
             /\ limPc'[t] = "none"]_vars
  /\ [](\A t \in Tasks :
          (Dispatch(req[t]) = "networkFirst" /\ netFailed[t])
            => putState[t] = "none" /\ limPc[t] = "none" /\ limHandle[t] = 0)

\* The fetch for a page of the dynamic cache rejected and the handler finished
\* with the persisted entry, which is still stored.
C15_Witness ==
  \E t \in Tasks :
    /\ req[t] = [method |-> "GET", path |-> WidgetPath]
    /\ pc[t] = "done"
    /\ netFailed[t]
    /\ outcome[t] = PersistedResponse
    /\ CacheMatch(Generation(DYNAMIC_CACHE), WidgetPath) = PersistedResponse
    /\ Len(Generation(DYNAMIC_CACHE)) = MAX_DYNAMIC_CACHE_SIZE

\* C16: no cache ever holds two entries for one key; a write that completes
\* leaves the entries of the other keys as they were and in their order,
\* followed by the one entry of its key, which holds the response written;
\* and when the requests that wrote all have the same identity and every write
\* has finished, their cache holds exactly one entry for the key, which is the
\* response of one of them.
C16_LastWriteWins ==
  /\ [](\A id \in 1..Len(store) :
          Cardinality({store[id][i].url : i \in 1..Len(store[id])}) = Len(store[id]))
  /\ [][\A t \in Tasks :
          (putState[t] = "pending" /\ putState'[t] = "stored")
          => LET before == store[handle[t]]
                 after == store'[handle[t]] IN
               /\ after = SelectSeq(before, LAMBDA e : e.url # req[t].path)
                            \o <<Entry(req[t].path, outcome[t])>>
               /\ \A id \in 1..Len(store) : id # handle[t] => store'[id] = store[id]]_vars
  /\ [](\A t \in Tasks :
          (/\ Quiescent
           /\ putState[t] = "stored"
           /\ \A u \in Tasks : putState[u] # "none" => req[u] = req[t])
          => LET entries == store[handle[t]] IN
               /\ Cardinality({i \in 1..Len(entries) : entries[i].url = req[t].path}) = 1
               /\ \E u \in Tasks :
                    /\ putState[u] = "stored"
                    /\ CacheMatch(entries, req[t].path) = NetworkResponse(200, u))

\* Two requests for the same page were both answered with status 200 and both
\* writes have finished: the cache holds the response of the request that
\* arrived first, whose write completed last.
C16_Witness ==
  /\ Quiescent
  /\ req[1] = [method |-> "GET", path |-> CartPath]
  /\ req[2] = req[1]
  /\ putState[1] = "stored"
  /\ putState[2] = "stored"
  /\ CacheMatch(Generation(DYNAMIC_CACHE), CartPath) = NetworkResponse(200, 1)
  /\ Cardinality({i \in 1..Len(Generation(DYNAMIC_CACHE)) :
                    Generation(DYNAMIC_CACHE)[i].url = CartPath}) = 1

\* C17: a handler that has finished has yielded a response object with an
\* integer status: the response of the network, an entry of the cache it
\* opened, or a synthesized response of status 503.
C17_YieldsResponse ==
  \A t \in Tasks :
    (responded[t] /\ pc[t] = "done")
    => /\ outcome[t].tag = "response"
       /\ outcome[t].status \in Int
       /\ \/ \E status \in NetStatuses : outcome[t] = NetworkResponse(status, t)
          \/ outcome[t].status = 503
          \/ outcome[t] = PersistedResponse
          \/ \E u \in Tasks : req[u] = req[t] /\ outcome[t] = NetworkResponse(200, u)

\* The extensions of the claim C18.
C18_CacheFirstExtensions ==
  {".css", ".js", ".woff", ".woff2", ".ttf", ".eot",
   ".jpg", ".jpeg", ".png", ".gif", ".webp", ".svg", ".avif"}

\* The request of task t was handed to a strategy, and its path ends in one of
\* the extensions (TRUE) or in none of them (FALSE).
C18_Handled(t, withExtension) ==
  /\ responded[t]
  /\ (req[t].path[Len(req[t].path)] \in C18_CacheFirstExtensions) = withExtension

\* C18: every GET request that is not excluded is handed to a strategy; one
\* whose path ends in a static or image extension opens, reads and writes the
\* static cache only and starts no limitCacheSize, every other one opens,
\* reads and writes the dynamic cache only; limitCacheSize opens the dynamic
\* cache only; a step that changes the static cache is the write of such a
\* request and deletes no entry, and a step that changes the dynamic cache is
\* a write or an eviction of a request of the other kind.
C18_OneStrategyOneGeneration ==
  /\ [](\A t \in Tasks :
          /\ (req[t] # NoRequest /\ ~C1_ExcludedRequest(t)) => responded[t]
          /\ C18_Handled(t, TRUE) =>
               /\ handle[t] \in {0, names[STATIC_CACHE]}
               /\ limPc[t] = "none"
               /\ limHandle[t] = 0
          /\ C18_Handled(t, FALSE) =>
               /\ handle[t] \in {0, names[DYNAMIC_CACHE]}
               /\ limHandle[t] \in {0, names[DYNAMIC_CACHE]})
  /\ [][Generation(STATIC_CACHE)' # Generation(STATIC_CACHE) =>
          /\ \E t \in Tasks :
               /\ C18_Handled(t, TRUE)
               /\ putState[t] = "pending"
               /\ putState'[t] = "stored"
          /\ \A i \in 1..Len(Generation(STATIC_CACHE)) :
               \E j \in 1..Len(Generation(STATIC_CACHE)') :
                 Generation(STATIC_CACHE)'[j].url = Generation(STATIC_CACHE)[i].url]_vars
  /\ [][Generation(DYNAMIC_CACHE)' # Generation(DYNAMIC_CACHE) =>
          \E t \in Tasks :
            /\ C18_Handled(t, FALSE)
            /\ \/ putState[t] = "pending" /\ putState'[t] = "stored"
               \/ limDel'[t] # limDel[t]]_vars

\* An image was stored in the static cache beside the persisted stylesheet
\* while the eviction of a page request deleted from the dynamic cache.
C18_Witness ==
  \E t, u \in Tasks :
    /\ req[t] = [method |-> "GET", path |-> PngPath]
    /\ putState[t] = "stored"
    /\ Len(Generation(STATIC_CACHE)) = 2
    /\ req[u] = [method |-> "GET", path |-> CartPath]
    /\ putState[u] = "stored"
    /\ limPc[u] = "done"
    /\ ~Truthy(CacheMatch(Generation(DYNAMIC_CACHE), OldestPagePath))

\* C19: the step in which the install handler completes binds STATIC_CACHE,
\* to a new empty cache when the name was unbound and to the cache it was
\* bound to otherwise; it leaves every other name, every existing cache and
\* the fetch counts as they were; the handler can complete whenever it has
\* started; and a step that binds DYNAMIC_CACHE is the caches.open of a
\* networkFirst handler.
C19_InstallCreatesStaticOnly ==
  /\ [][(installPc = "open" /\ installPc' = "done") =>
          /\ names'[STATIC_CACHE] # 0
          /\ \A n \in CacheNames \ {STATIC_CACHE} : names'[n] = names[n]
          /\ \A id \in 1..Len(store) : store'[id] = store[id]
          /\ IF names[STATIC_CACHE] # 0
             THEN names' = names /\ store' = store
             ELSE /\ Len(store') = Len(store) + 1
                  /\ names'[STATIC_CACHE] = Len(store')
                  /\ store'[Len(store')] = << >>
          /\ netCalls' = netCalls]_vars
  /\ [](installPc = "open" => ENABLED InstallOpened)
  /\ [][(names[DYNAMIC_CACHE] = 0 /\ names'[DYNAMIC_CACHE] # 0) =>
          \E t \in Tasks :
            /\ Dispatch(req[t]) = "networkFirst"
            /\ pc[t] = "open"
            /\ pc'[t] = "fetch"
            /\ handle'[t] = names'[DYNAMIC_CACHE]]_vars

\* Version v1 was installed over v0: the static cache was created empty and
\* the dynamic cache, unbound when install completed, was created by the
\* first page request.
C19_Witness ==
  /\ installPc = "done"
  /\ names[OLD_STATIC_CACHE] # 0
  /\ names[STATIC_CACHE] = 4
  /\ store[4] = << >>
  /\ names[DYNAMIC_CACHE] = 5
  /\ \E t \in Tasks : Dispatch(req[t]) = "networkFirst" /\ handle[t] = 5

\* C20: when the fetch of networkFirst resolves with a status other than 200,
\* the handler finishes with that response, whether or not the dynamic cache
\* holds an entry for the request; the step leaves Cache Storage as it was and
\* starts no cache.put and no limitCacheSize, and the handler starts none
\* later.
C20_NetworkErrorStatusPassedOn ==
  /\ [][\A t \in Tasks : \A status \in NetStatuses \ {200} :
          (/\ pc[t] = "fetch"
           /\ pc'[t] = "done"
           /\ Dispatch(req[t]) = "networkFirst"
           /\ outcome'[t].status = status)
          => /\ outcome'[t] = NetworkResponse(status, t)
             /\ UNCHANGED <<names, store>>
             /\ putState'[t] = "none"
             /\ limPc'[t] = "none"]_vars
  /\ [](\A t \in Tasks :
          (/\ pc[t] = "done"
           /\ ~netFailed[t]
           /\ Dispatch(req[t]) = "networkFirst")
          => /\ \E status \in NetStatuses : outcome[t] = NetworkResponse(status, t)
             /\ outcome[t].status # 200 =>
                  putState[t] = "none" /\ limPc[t] = "none" /\ limHandle[t] = 0)

\* A page of the dynamic cache was requested, the origin answered 404, the
\* handler returned the 404 and the persisted entry is still stored.
C20_Witness ==
  \E t \in Tasks :
    /\ req[t] = [method |-> "GET", path |-> WidgetPath]
    /\ pc[t] = "done"
    /\ outcome[t] = NetworkResponse(404, t)
    /\ Generation(DYNAMIC_CACHE) = FullDynamic

====
